---- MODULE Spec2Model ----
(***************************************************************************)
(* A model of dashboard/dashboard.py: the CSV load with its date coercion, *)
(* the date-range widget, the filter that builds main_df, the six          *)
(* aggregators, the headline metrics and the outcome of the plotting       *)
(* calls.  One run of the script is one                                    *)
(* action; the script is run once with the widget's default range and      *)
(* again after each of the two clicks by which the user picks a range.     *)
(*                                                                         *)
(* Time is counted in ticks.  A day has TicksPerDay ticks; tick 0 of a day *)
(* is midnight.  A Timestamp is day * TicksPerDay + time-of-day, a         *)
(* calendar date is the day number.  NaT is the missing timestamp.         *)
(***************************************************************************)
EXTENDS FiniteSets, Integers, Sequences, TLC

\* Bounds of the model.
MaxRows == 3
NumDays == 3

\* Times of day a timestamp may carry: 0 is midnight, 1 is later that day.
TimesOfDay == {0, 1}
TicksPerDay == Cardinality(TimesOfDay)

\* Missing markers: pandas' NaT for timestamps, NaN for text and for floats.
NaT == -1
NaN == "NaN"
NaNf == -1

\* The value of a number the run has not bound.
Unbound == -2

\* Lexicographic order of the text keys that occur (groupby sorts its keys).
KeyOrder == <<"RJ", "SP", "books", "c1", "c2", "campinas", "niteroi",
              "o1", "o2", "o3", "p1", "p2", "p3", "r1", "r2", "r3", "toys">>

Rank(k) == CHOOSE i \in 1..Len(KeyOrder) : KeyOrder[i] = k

-----------------------------------------------------------------------------
(* The CSV file.  A date cell is a sequence of numeric fields:             *)
(*   <<>>        an empty cell                                             *)
(*   <<d>>       a date without a time, "2018-01-0d"                       *)
(*   <<d, t>>    a date and a time of day                                  *)
(* A cell whose day or time is out of range is text that is not a date.    *)

Row(o, c, raw, p, st, city, rid, score, pid, cat) ==
  [order_id |-> o, customer_id |-> c, order_estimated_delivery_date |-> raw,
   price |-> p, customer_state |-> st, customer_city |-> city,
   review_id |-> rid, review_score |-> score,
   product_id |-> pid, product_category_name |-> cat]

\* Date cells: every day and time of day, an empty cell, an unparseable one.
RawDates ==
  [i \in 1..(NumDays * TicksPerDay + 2) |->
     IF i <= NumDays * TicksPerDay
       THEN <<((i - 1) \div TicksPerDay) + 1, (i - 1) % TicksPerDay>>
       ELSE IF i = NumDays * TicksPerDay + 1 THEN <<>> ELSE <<1, TicksPerDay>>]

\* Line items of order o1 (customer c1 in SP): one per date cell; the price
\* and the product vary with the time of day.
RowsO1 ==
  [i \in 1..Len(RawDates) |->
     LET raw == RawDates[i]
         t == IF Len(raw) = 2 THEN raw[2] ELSE 0
     IN Row("o1", "c1", raw, 1 + t, "SP", "campinas", "r1", 5,
            IF t = 0 THEN "p1" ELSE "p2", "toys")]

\* Line items of order o2 (customer c2 in RJ): one dated with a time, one
\* dated without.
RowsO2 ==
  <<Row("o2", "c2", <<1, 0>>,    3, "RJ", "niteroi", "r2", 4, "p3", "books"),
    Row("o2", "c2", <<NumDays>>, 3, "RJ", "niteroi", "r2", 4, "p3", "books")>>

\* Line items of order o3, bought by either customer, with the customer's
\* state given differently from the rows above or left empty.  The first is
\* a line of the last day whose price is negative (read_csv takes any number
\* for a price).
RowsO3 ==
  <<Row("o3", "c1", <<NumDays, 0>>, -2, "RJ", "campinas", "r3", 1, "p1", "toys"),
    Row("o3", "c2", <<2, 0>>,        2, NaN,  "niteroi",  "r3", 1, "p2", "toys"),
    Row("o3", "c2", <<2, 0>>,        2, "SP", "campinas", "r3", 1, "p2", "toys")>>

Pool == RowsO1 \o RowsO2 \o RowsO3

\* The files: up to MaxRows rows of the pool.  The first row is any row; the
\* rows after it are listed in the order of the pool, since a row's position
\* is read only to find the first date cell that is not empty.
CsvFiles ==
  UNION {{[i \in 1..n |-> Pool[f[i]]] :
            f \in {g \in [1..n -> 1..Len(Pool)] :
                     \A i \in 2..n : \A j \in 2..n : i <= j => g[i] <= g[j]}} :
         n \in 0..MaxRows}

-----------------------------------------------------------------------------
(* The script's module-level names                                         *)

VARIABLES csv, all_df, pc, date_input, start_date, end_date, main_df,
          daily_orders_df, bystate_customer_df, bycity_customer_df,
          byproduct_df, review_score_df, rfm_df,
          total_orders, total_revenue, avg_review_df

vars == <<csv, all_df, pc, date_input, start_date, end_date, main_df,
          daily_orders_df, bystate_customer_df, bycity_customer_df,
          byproduct_df, review_score_df, rfm_df,
          total_orders, total_revenue, avg_review_df>>

SetMin(S) == CHOOSE x \in S : \A y \in S : x <= y
SetMax(S) == CHOOSE x \in S : \A y \in S : y <= x

-----------------------------------------------------------------------------
(* Loader                                                                  *)

\* One cell parsed on its own: the Timestamp, or NaT for a cell that is
\* empty or is not a date.
ToDatetime(raw) ==
  IF Len(raw) = 1 /\ raw[1] >= 1
    THEN raw[1] * TicksPerDay
  ELSE IF Len(raw) = 2 /\ raw[1] >= 1 /\ raw[2] \in TimesOfDay
    THEN raw[1] * TicksPerDay + raw[2]
  ELSE NaT

\* The format a cell is written in: "date", "datetime", "null" for an empty
\* cell, "none" for text from which no format can be guessed.
CellFormat(raw) ==
  IF Len(raw) = 0 THEN "null"
  ELSE IF ToDatetime(raw) = NaT THEN "none"
  ELSE IF Len(raw) = 1 THEN "date" ELSE "datetime"

\* The format guessed for the column: that of its first cell that is not
\* empty; "none" when every cell is empty.
GuessedFormat(file) ==
  LET filled == {i \in 1..Len(file) :
                   CellFormat(file[i].order_estimated_delivery_date) # "null"}
  IN IF filled = {} THEN "none"
     ELSE CellFormat(file[SetMin(filled)].order_estimated_delivery_date)

\* read_csv and the datetime_columns loop where to_datetime parses every
\* cell on its own (pandas before 2.0: infer_datetime_format only speeds up).
LoadTablePerCell(file) ==
  [i \in 1..Len(file) |->
     [file[i] EXCEPT !.order_estimated_delivery_date = ToDatetime(@)]]

\* read_csv and the datetime_columns loop where to_datetime applies the
\* guessed format to the whole column (pandas from 2.0 on): a cell in another
\* format is coerced to NaT; without a guess every cell is parsed on its own.
LoadTableByFormat(file) ==
  IF GuessedFormat(file) = "none" THEN LoadTablePerCell(file)
  ELSE [i \in 1..Len(file) |->
          [file[i] EXCEPT !.order_estimated_delivery_date =
             IF CellFormat(@) = GuessedFormat(file) THEN ToDatetime(@) ELSE NaT]]

\* The tables the load can give: which of the two depends on the pandas
\* installed, which the repository does not pin.
LoadTable(file) == {LoadTablePerCell(file), LoadTableByFormat(file)}

-----------------------------------------------------------------------------
(* Column helpers                                                          *)

Dates(df) ==
  {df[i].order_estimated_delivery_date : i \in 1..Len(df)} \ {NaT}

\* Series.min() and Series.max() skip NaT and give NaT for no value at all.
ColMin(df) == IF Dates(df) = {} THEN NaT ELSE SetMin(Dates(df))
ColMax(df) == IF Dates(df) = {} THEN NaT ELSE SetMax(Dates(df))

\* The widget turns a Timestamp into a calendar date.
DateOf(ts) == IF ts = NaT THEN NaT ELSE ts \div TicksPerDay

\* str(date), read back by the comparison as a Timestamp: midnight of the day.
StrTimestamp(d) == IF d = NaT THEN NaT ELSE d * TicksPerDay

\* Comparisons of a datetime column's cell with a Timestamp: false on NaT.
Ge(x, y) == x # NaT /\ y # NaT /\ x >= y
Le(x, y) == x # NaT /\ y # NaT /\ x <= y

\* Series.nunique(): distinct values, NaN not counted.
nunique(S) == Cardinality(S \ {NaN})

RECURSIVE SumOver(_, _, _)
SumOver(df, col, I) ==
  IF I = {} THEN 0
  ELSE LET i == CHOOSE j \in I : TRUE
       IN df[i][col] + SumOver(df, col, I \ {i})

\* The text keys of S in increasing order.
SortKeys(S) ==
  CHOOSE s \in [1..Cardinality(S) -> S] :
    \A i \in 1..Cardinality(S) : \A j \in 1..Cardinality(S) :
      i < j => Rank(s[i]) < Rank(s[j])

\* The numbers of S in increasing order.
SortNumbers(S) ==
  CHOOSE s \in [1..Cardinality(S) -> S] :
    \A i \in 1..Cardinality(S) : \A j \in 1..Cardinality(S) :
      i < j => s[i] < s[j]

-----------------------------------------------------------------------------
(* Filter                                                                  *)

\* Variant: the bounds tested by negated comparisons, which NaT passes.
FilterNegated(df, start, end) ==
  LET keep(r) == /\ ~ (/\ r.order_estimated_delivery_date # NaT
                        /\ r.order_estimated_delivery_date < StrTimestamp(start))
                 /\ ~ (/\ r.order_estimated_delivery_date # NaT
                        /\ r.order_estimated_delivery_date > StrTimestamp(end))
  IN SelectSeq(df, keep)

Filter(df, start, end) ==
  LET keep(r) == /\ Ge(r.order_estimated_delivery_date, StrTimestamp(start))
                 /\ Le(r.order_estimated_delivery_date, StrTimestamp(end))
  IN SelectSeq(df, keep)

-----------------------------------------------------------------------------
(* Aggregators                                                             *)

\* The keys of a groupby on a text column: the distinct values, NaN dropped.
Keys(df, col) == {df[i][col] : i \in 1..Len(df)} \ {NaN}

\* The rows of one group.
GroupRows(df, col, k) == {i \in 1..Len(df) : df[i][col] = k}

\* The rows whose date falls on calendar day d.
DayRows(df, d) ==
  {i \in 1..Len(df) : /\ df[i].order_estimated_delivery_date # NaT
                      /\ DateOf(df[i].order_estimated_delivery_date) = d}

\* Variant: a groupby on the day instead of a resample, so that only the
\* days that have rows get a bucket.
create_daily_orders_df_groupby(df) ==
  LET days == SortNumbers({DateOf(t) : t \in Dates(df)})
  IN [k \in 1..Len(days) |->
        [order_date  |-> StrTimestamp(days[k]),
         order_count |-> nunique({df[i].order_id : i \in DayRows(df, days[k])}),
         revenue     |-> SumOver(df, "price", DayRows(df, days[k]))]]

\* resample(rule="D").agg(nunique, sum): one bucket for every day from the
\* earliest dated row to the latest, empty buckets giving 0 and 0.
create_daily_orders_df(df) ==
  IF Dates(df) = {} THEN <<>>
  ELSE LET lo == DateOf(ColMin(df))
           hi == DateOf(ColMax(df))
       IN [k \in 1..(hi - lo + 1) |->
             [order_date  |-> StrTimestamp(lo + k - 1),
              order_count |-> nunique({df[i].order_id : i \in DayRows(df, lo + k - 1)}),
              revenue     |-> SumOver(df, "price", DayRows(df, lo + k - 1))]]

\* Variant: ascending order.
sort_values_ascending(s, col) ==
  {[i \in 1..Len(s) |-> s[q[i]]] :
     q \in {p \in [1..Len(s) -> 1..Len(s)] :
              /\ \A i \in 1..Len(s) : \A j \in 1..Len(s) : i # j => p[i] # p[j]
              /\ \A i \in 1..Len(s) : \A j \in 1..Len(s) :
                   i < j => s[p[i]][col] <= s[p[j]][col]}}

\* Series.sort_values(ascending=False) with the default sort kind, which is
\* not a stable one: every arrangement in non-increasing order of the column
\* is a possible result.
sort_values(s, col) ==
  {[i \in 1..Len(s) |-> s[q[i]]] :
     q \in {p \in [1..Len(s) -> 1..Len(s)] :
              /\ \A i \in 1..Len(s) : \A j \in 1..Len(s) : i # j => p[i] # p[j]
              /\ \A i \in 1..Len(s) : \A j \in 1..Len(s) :
                   i < j => s[p[i]][col] >= s[p[j]][col]}}

\* Variant: count() instead of nunique(), the rows of each state.
GroupedByStateCount(df) ==
  LET keys == SortKeys(Keys(df, "customer_state"))
  IN [g \in 1..Len(keys) |->
        [customer_state |-> keys[g],
         customer_count |-> Cardinality(GroupRows(df, "customer_state", keys[g]))]]

\* groupby("customer_state").customer_id.nunique(), in key order.
GroupedByState(df) ==
  LET keys == SortKeys(Keys(df, "customer_state"))
  IN [g \in 1..Len(keys) |->
        [customer_state |-> keys[g],
         customer_count |->
           nunique({df[i].customer_id : i \in GroupRows(df, "customer_state", keys[g])})]]

create_bystate_customer_df(df) == sort_values(GroupedByState(df), "customer_count")

\* groupby("customer_city").order_id.nunique(), in key order.
GroupedByCity(df) ==
  LET keys == SortKeys(Keys(df, "customer_city"))
  IN [g \in 1..Len(keys) |->
        [customer_city  |-> keys[g],
         customer_count |->
           nunique({df[i].order_id : i \in GroupRows(df, "customer_city", keys[g])})]]

create_bycity_customer_df(df) == sort_values(GroupedByCity(df), "customer_count")

\* groupby("review_score").review_id.nunique(), in score order.
create_review_score_df(df) ==
  LET keys == SortNumbers({df[i].review_score : i \in 1..Len(df)})
  IN [g \in 1..Len(keys) |->
        [review_score |-> keys[g],
         review_count |->
           nunique({df[i].review_id : i \in GroupRows(df, "review_score", keys[g])})]]

\* groupby("product_category_name").product_id.nunique(), in key order.
create_byproduct_df(df) ==
  LET keys == SortKeys(Keys(df, "product_category_name"))
  IN [g \in 1..Len(keys) |->
        [product_category_name |-> keys[g],
         product_id |->
           nunique({df[i].product_id : i \in GroupRows(df, "product_category_name", keys[g])})]]

\* A customer's max_order_timestamp.
MaxOrderTimestamp(df, c) ==
  LET ts == {df[i].order_estimated_delivery_date :
               i \in GroupRows(df, "customer_id", c)} \ {NaT}
  IN IF ts = {} THEN NaT ELSE SetMax(ts)

\* The days of a Timedelta: whole days, rounded down.
Days(recent_date, x) ==
  IF recent_date = NaT \/ x = NaT THEN NaT ELSE (recent_date - x) \div TicksPerDay

\* Variant: the latest date of the whole table, not of the filtered one.
RecentDateOfAll(df) == ColMax(all_df)

\* recent_date: the latest max_order_timestamp of all customers.
RecentDate(df) == ColMax(df)

\* Variant: "price": "mean" instead of "sum" (whole units).
create_rfm_df_mean(df) ==
  LET keys == SortKeys(Keys(df, "customer_id"))
  IN [g \in 1..Len(keys) |->
        [customer_id |-> keys[g],
         frequency   |->
           nunique({df[i].order_id : i \in GroupRows(df, "customer_id", keys[g])}),
         monetary    |-> SumOver(df, "price", GroupRows(df, "customer_id", keys[g]))
                           \div Cardinality(GroupRows(df, "customer_id", keys[g])),
         recency     |-> Days(RecentDate(df), MaxOrderTimestamp(df, keys[g]))]]

create_rfm_df(df) ==
  LET keys == SortKeys(Keys(df, "customer_id"))
  IN [g \in 1..Len(keys) |->
        [customer_id |-> keys[g],
         frequency   |->
           nunique({df[i].order_id : i \in GroupRows(df, "customer_id", keys[g])}),
         monetary    |-> SumOver(df, "price", GroupRows(df, "customer_id", keys[g])),
         recency     |-> Days(RecentDate(df), MaxOrderTimestamp(df, keys[g]))]]

\* Series.sum() of a summary table's column.
ColumnSum(t, col) == SumOver(t, col, 1..Len(t))

\* round(x, 2) of the quotient s / n, in hundredths, halves to the even.
Round2(s, n) ==
  LET q == (100 * s) \div n
      r == (100 * s) % n
  IN IF 2 * r > n \/ (2 * r = n /\ q % 2 = 1) THEN q + 1 ELSE q

\* round(main_df.review_score.mean(), 2), in hundredths; NaN on no rows.
AvgReview(df) ==
  IF Len(df) = 0 THEN NaNf
  ELSE Round2(SumOver(df, "review_score", 1..Len(df)), Len(df))

-----------------------------------------------------------------------------
(* The script as a state machine                                           *)

min_date == ColMin(all_df)
max_date == ColMax(all_df)

\* The table is loaded and its dates parsed; the widget holds its default
\* value, (min_date, max_date), and has not answered yet.
Init ==
  /\ csv \in CsvFiles
  /\ all_df \in LoadTable(csv)
  /\ pc = "widget"
  /\ date_input = <<DateOf(min_date), DateOf(max_date)>>
  /\ start_date = NaT
  /\ end_date = NaT
  /\ main_df = <<>>
  /\ daily_orders_df = <<>>
  /\ bystate_customer_df = <<>>
  /\ bycity_customer_df = <<>>
  /\ byproduct_df = <<>>
  /\ review_score_df = <<>>
  /\ rfm_df = <<>>
  /\ total_orders = 0
  /\ total_revenue = 0
  /\ avg_review_df = Unbound

\* An empty table is handed to sns.barplot: the state or the city table.
\* Whether the call raises on it depends on the seaborn installed, which the
\* repository does not pin.  (The tables plotted further down are empty only
\* when these are.)
BarplotOfEmptyTable(bystate, bycity) == bystate = <<>> \/ bycity = <<>>

\* The script from the filter on, for the range the widget returned: the
\* filtered view, the six tables and the two totals; then either every
\* plotting call returns, the average is computed and the page is rendered,
\* or a bar plot of an empty table raises before the average is computed.
Run(s, e) ==
  /\ start_date' = s
  /\ end_date' = e
  /\ main_df' = Filter(all_df, s, e)
  /\ daily_orders_df' = create_daily_orders_df(main_df')
  /\ bystate_customer_df' \in create_bystate_customer_df(main_df')
  /\ bycity_customer_df' \in create_bycity_customer_df(main_df')
  /\ byproduct_df' = create_byproduct_df(main_df')
  /\ review_score_df' = create_review_score_df(main_df')
  /\ rfm_df' = create_rfm_df(main_df')
  /\ total_orders' = ColumnSum(daily_orders_df', "order_count")
  /\ total_revenue' = ColumnSum(daily_orders_df', "revenue")
  /\ \/ /\ avg_review_df' = AvgReview(main_df')
        /\ pc' = "rendered"
     \/ /\ BarplotOfEmptyTable(bystate_customer_df', bycity_customer_df')
        /\ avg_review_df' = Unbound
        /\ pc' = "plot_failed"
  /\ UNCHANGED <<csv, all_df>>

\* A run that raises at the widget's line: none of the names below it is
\* bound and nothing is rendered.
RunFails ==
  /\ pc' = "failed"
  /\ start_date' = NaT
  /\ end_date' = NaT
  /\ main_df' = <<>>
  /\ daily_orders_df' = <<>>
  /\ bystate_customer_df' = <<>>
  /\ bycity_customer_df' = <<>>
  /\ byproduct_df' = <<>>
  /\ review_score_df' = <<>>
  /\ rfm_df' = <<>>
  /\ total_orders' = 0
  /\ total_revenue' = 0
  /\ avg_review_df' = Unbound
  /\ UNCHANGED <<csv, all_df>>

\* The first run: the widget answers with its default value, (min, max).
FirstRun ==
  /\ pc = "widget"
  /\ min_date # NaT
  /\ Run(date_input[1], date_input[2])
  /\ UNCHANGED date_input

\* The user clicks the first date of a new range, on a page that a run has
\* rendered or has left at a failed plot.  The script reruns, the widget
\* returns that one date, and unpacking it into start_date, end_date raises.
PickStart ==
  /\ pc \in {"rendered", "plot_failed"}
  /\ min_date # NaT
  /\ \E s \in DateOf(min_date)..DateOf(max_date) : date_input' = <<s>>
  /\ RunFails

\* The user clicks the second date.  The script reruns with the pair.  The
\* script does not compare the two dates; every second date between the
\* widget's bounds is taken as possible, one before the first included.
PickEnd ==
  /\ pc = "failed"
  /\ Len(date_input) = 1
  /\ \E e \in DateOf(min_date)..DateOf(max_date) :
       /\ date_input' = <<date_input[1], e>>
       /\ Run(date_input[1], e)

\* No row has a date: the widget is given NaT for its bounds and value.
\* Either it raises and the run ends there, ...
WidgetRaises ==
  /\ pc = "widget"
  /\ min_date = NaT
  /\ RunFails
  /\ UNCHANGED date_input

\* ... or it hands NaT back and the script goes on.
RunWithoutDates ==
  /\ pc = "widget"
  /\ min_date = NaT
  /\ Run(date_input[1], date_input[2])
  /\ UNCHANGED date_input

Next == FirstRun \/ PickStart \/ PickEnd \/ WidgetRaises \/ RunWithoutDates

Spec == Init /\ [][Next]_vars

-----------------------------------------------------------------------------
(* Vocabulary of the properties                                            *)

\* The run has computed the filtered view, the tables and the totals.
Computed == pc \in {"rendered", "plot_failed"}

\* The same, for a range of two dates.
Ranged == Computed /\ start_date # NaT /\ end_date # NaT

\* The row's date falls on a calendar day d with s <= d <= e.
OnDayWithin(r, s, e) ==
  /\ r.order_estimated_delivery_date # NaT
  /\ s <= DateOf(r.order_estimated_delivery_date)
  /\ DateOf(r.order_estimated_delivery_date) <= e

\* The rows of df whose calendar day lies in [s, e].
RowsOnDaysWithin(df, s, e) ==
  LET within(r) == OnDayWithin(r, s, e) IN SelectSeq(df, within)

\* Every dated row of df is stamped at midnight.
AllMidnight(df) == \A t \in Dates(df) : t % TicksPerDay = 0

\* The rows of df that have a date.
DropMissingDates(df) ==
  LET dated(r) == r.order_estimated_delivery_date # NaT IN SelectSeq(df, dated)

\* The distinct values of a column.
Distinct(df, col) == {df[i][col] : i \in 1..Len(df)}

\* The value a summary table gives for a key, 0 when the key has no row.
ValueAt(t, keycol, k, col) ==
  IF \E i \in 1..Len(t) : t[i][keycol] = k
    THEN (t[CHOOSE i \in 1..Len(t) : t[i][keycol] = k])[col]
    ELSE 0

\* Every value of table t is at most the value table u gives for the same key.
TableLeq(t, u, keycol, col) ==
  \A i \in 1..Len(t) : t[i][col] <= ValueAt(u, keycol, t[i][keycol], col)

\* The load gives the table of this state whatever pandas is installed.
SameOnEveryBuild == LoadTable(csv) = {all_df}

\* Range [s1, e1] is contained in range [s2, e2], as sets of calendar days.
Contained(s1, e1, s2, e2) == s1 > e1 \/ (s2 <= s1 /\ e1 <= e2)

-----------------------------------------------------------------------------
(* C1 *)

\* C1 (as stated): main_df holds exactly the rows whose date falls on a
\* calendar day between start_date and end_date, both days included, whatever
\* the time of day of the row.
C1_FilterKeepsWholeDays ==
  Ranged => main_df = RowsOnDaysWithin(all_df, start_date, end_date)

-----------------------------------------------------------------------------
(* C2 *)

\* C2 (as stated): for a selected range [start, end] the daily table has one
\* row for every calendar day of the range, with that day's distinct orders
\* and summed prices.  Stated for tables stamped at midnight only, where the
\* filter keeps whole days.
C2_OneRowPerDayOfRange ==
  (Ranged /\ AllMidnight(all_df) /\ start_date <= end_date) =>
    /\ Len(daily_orders_df) = end_date - start_date + 1
    /\ \A k \in 1..Len(daily_orders_df) :
         /\ daily_orders_df[k].order_date = StrTimestamp(start_date + k - 1)
         /\ daily_orders_df[k].order_count =
              Cardinality({main_df[i].order_id : i \in DayRows(main_df, start_date + k - 1)})
         /\ daily_orders_df[k].revenue =
              SumOver(main_df, "price", DayRows(main_df, start_date + k - 1))

\* C2 (amended): the daily table has one row for every calendar day from the
\* earliest to the latest day of the filtered rows, days without orders
\* included with 0 and 0, and no row when the filtered view is empty; each
\* row's order_count is the number of distinct order_id and its revenue the
\* sum of price of the filtered rows of that day.
C2_OneRowPerDayOfFilteredSpan ==
  Computed =>
    IF main_df = <<>> THEN daily_orders_df = <<>>
    ELSE LET days == {DateOf(main_df[i].order_estimated_delivery_date) :
                        i \in 1..Len(main_df)}
         IN /\ Len(daily_orders_df) = SetMax(days) - SetMin(days) + 1
            /\ \A d \in SetMin(days)..SetMax(days) :
                 LET k == d - SetMin(days) + 1
                 IN /\ daily_orders_df[k].order_date = d * TicksPerDay
                    /\ daily_orders_df[k].order_count =
                         Cardinality({main_df[i].order_id : i \in DayRows(main_df, d)})
                    /\ daily_orders_df[k].revenue =
                         SumOver(main_df, "price", DayRows(main_df, d))

\* A day without orders between two days with orders is in the table.
C2_Witness ==
  /\ SameOnEveryBuild
  /\ Computed
  /\ Len(daily_orders_df) = 3
  /\ daily_orders_df[1].order_count = 1
  /\ daily_orders_df[2].order_count = 0
  /\ daily_orders_df[2].revenue = 0
  /\ daily_orders_df[3].order_count = 1

-----------------------------------------------------------------------------
(* C3 *)

\* Every order_id of df maps to exactly one estimated-delivery day.
OneDayPerOrder(df) ==
  /\ \A i \in 1..Len(df) : df[i].order_estimated_delivery_date # NaT
  /\ \A i \in 1..Len(df) : \A j \in 1..Len(df) :
       df[i].order_id = df[j].order_id =>
         DateOf(df[i].order_estimated_delivery_date) =
           DateOf(df[j].order_estimated_delivery_date)

\* C3 (as stated): with the default range the Total Orders metric is the
\* number of distinct order_id of the whole table, when every order maps to
\* exactly one estimated-delivery day.
C3_TotalOrdersIsDistinctOrders ==
  (/\ Ranged
   /\ start_date = DateOf(min_date)
   /\ end_date = DateOf(max_date)
   /\ OneDayPerOrder(all_df)) =>
    total_orders = Cardinality(Distinct(all_df, "order_id"))

-----------------------------------------------------------------------------
(* C4 *)

\* C4 (as stated): every recency is >= 0 and, in a filtered view that has
\* rows, exactly one customer has recency 0: the one whose latest date is the
\* latest date of the filtered view.
C4_ExactlyOneRecencyZero ==
  (Computed /\ main_df # <<>>) =>
    /\ \A g \in 1..Len(rfm_df) : rfm_df[g].recency >= 0
    /\ Cardinality({g \in 1..Len(rfm_df) : rfm_df[g].recency = 0}) = 1
    /\ \A g \in 1..Len(rfm_df) :
         rfm_df[g].recency = 0 <=>
           MaxOrderTimestamp(main_df, rfm_df[g].customer_id) = SetMax(Dates(main_df))

\* C4 (amended): every recency is >= 0 and is the whole-day difference
\* between the latest date of the filtered view and the customer's own latest
\* date; in a filtered view that has rows at least one customer has recency 0,
\* every customer whose latest date is less than one day before the filtered
\* view's latest date has recency 0, and no other customer has.
C4_RecencyFromFilteredMax ==
  (Computed /\ main_df # <<>>) =>
    LET latest == SetMax({main_df[i].order_estimated_delivery_date :
                            i \in 1..Len(main_df)})
        own(c) == SetMax({main_df[i].order_estimated_delivery_date :
                            i \in {j \in 1..Len(main_df) : main_df[j].customer_id = c}})
    IN /\ {rfm_df[g].customer_id : g \in 1..Len(rfm_df)} = Distinct(main_df, "customer_id")
       /\ \A g \in 1..Len(rfm_df) :
            /\ rfm_df[g].recency >= 0
            /\ rfm_df[g].recency = (latest - own(rfm_df[g].customer_id)) \div TicksPerDay
            /\ rfm_df[g].recency = 0 <=>
                 latest - own(rfm_df[g].customer_id) < TicksPerDay
       /\ \E g \in 1..Len(rfm_df) :
            /\ rfm_df[g].recency = 0
            /\ own(rfm_df[g].customer_id) = latest

\* Two customers share recency 0 while the filtered view ends before the
\* table does.
C4_Witness ==
  /\ SameOnEveryBuild
  /\ Computed
  /\ Len(rfm_df) = 2
  /\ rfm_df[1].recency = 0
  /\ rfm_df[2].recency = 0
  /\ ColMax(main_df) < ColMax(all_df)

-----------------------------------------------------------------------------
(* C5 *)

\* The counts computed on a narrower view, with its daily table and its RFM
\* table, are at most those of the selected view: total and per-day
\* order_count, per-state and per-city customer_count, per-score
\* review_count, per-category product count and per-customer frequency.  The
\* state and city rows are compared key by key, so the order sort_values
\* gives them does not matter.
CountsLeqSelected(narrow, daily, rfm) ==
  /\ ColumnSum(daily, "order_count") <= total_orders
  /\ TableLeq(daily, daily_orders_df, "order_date", "order_count")
  /\ TableLeq(GroupedByState(narrow), bystate_customer_df,
              "customer_state", "customer_count")
  /\ TableLeq(GroupedByCity(narrow), bycity_customer_df,
              "customer_city", "customer_count")
  /\ TableLeq(create_review_score_df(narrow), review_score_df,
              "review_score", "review_count")
  /\ TableLeq(create_byproduct_df(narrow), byproduct_df,
              "product_category_name", "product_id")
  /\ TableLeq(rfm, rfm_df, "customer_id", "frequency")

\* The sums of price of a narrower view's daily table and RFM table are at
\* most those of the selected view: total and per-day revenue, per-customer
\* monetary.
SumsLeqSelected(daily, rfm) ==
  /\ ColumnSum(daily, "revenue") <= total_revenue
  /\ TableLeq(daily, daily_orders_df, "order_date", "revenue")
  /\ TableLeq(rfm, rfm_df, "customer_id", "monetary")

\* No row of df has a negative price.
NonNegativePrices(df) == \A i \in 1..Len(df) : df[i].price >= 0

\* C5 (as stated): for any table, every count and sum computed on the view
\* of a range contained in the selected one is at most the one computed on
\* the selected view: the two totals, the per-day order_count and revenue,
\* the per-state and per-city customer_count, the per-score review_count, the
\* per-category product count and the per-customer frequency and monetary.
C5_NarrowingIsMonotonic ==
  Ranged =>
    \A s \in DateOf(min_date)..DateOf(max_date) :
      \A e \in DateOf(min_date)..DateOf(max_date) :
        Contained(s, e, start_date, end_date) =>
          LET narrow == Filter(all_df, s, e)
              daily == create_daily_orders_df(narrow)
              rfm == create_rfm_df(narrow)
          IN /\ CountsLeqSelected(narrow, daily, rfm)
             /\ SumsLeqSelected(daily, rfm)

\* C5 (amended): every count computed on the view of a range contained in
\* the selected one is at most the one computed on the selected view; the
\* sums of price (total and per-day revenue, per-customer monetary) are so
\* when no row of the selected view has a negative price.
C5_NarrowingIsMonotonicForNonNegativePrices ==
  Ranged =>
    \A s \in DateOf(min_date)..DateOf(max_date) :
      \A e \in DateOf(min_date)..DateOf(max_date) :
        Contained(s, e, start_date, end_date) =>
          LET narrow == Filter(all_df, s, e)
              daily == create_daily_orders_df(narrow)
              rfm == create_rfm_df(narrow)
          IN /\ CountsLeqSelected(narrow, daily, rfm)
             /\ NonNegativePrices(main_df) => SumsLeqSelected(daily, rfm)

\* A table that has a negative price on its last day, and a selected range,
\* picked by two clicks, that leaves that row out, keeps two rows and has a
\* range within it that keeps one of them, with less revenue.
C5_Witness ==
  /\ SameOnEveryBuild
  /\ Ranged
  /\ Len(date_input) = 2
  /\ start_date < end_date
  /\ ~ NonNegativePrices(all_df)
  /\ NonNegativePrices(main_df)
  /\ Len(main_df) = 2
  /\ Len(Filter(all_df, start_date, start_date)) = 1
  /\ 0 < SumOver(main_df, "price", DayRows(main_df, start_date))
  /\ SumOver(main_df, "price", DayRows(main_df, start_date)) < total_revenue

-----------------------------------------------------------------------------
(* C6 *)

\* Every customer_id of df carries one customer_state on all its rows (a
\* missing state counting as a value).
OneStatePerCustomer(df) ==
  \A i \in 1..Len(df) : \A j \in 1..Len(df) :
    df[i].customer_id = df[j].customer_id =>
      df[i].customer_state = df[j].customer_state

\* The state table's customer_count sums to at most the number of distinct
\* customers, with equality exactly when no state is missing.
StateCountsWithinCustomers ==
  /\ ColumnSum(bystate_customer_df, "customer_count")
       <= Cardinality(Distinct(main_df, "customer_id"))
  /\ ColumnSum(bystate_customer_df, "customer_count")
         = Cardinality(Distinct(main_df, "customer_id"))
       <=> \A i \in 1..Len(main_df) : main_df[i].customer_state # NaN

\* C6 (as stated): for every filtered table the customer_count of the state
\* rows sums to at most the number of distinct customer_id, with equality if
\* and only if every customer has a state.
C6_StateCountsForEveryTable ==
  Computed => StateCountsWithinCustomers

\* C6 (amended): the same, for every filtered table in which each
\* customer_id carries a single customer_state value on all its rows.
C6_StateCountsForOneStatePerCustomer ==
  (Computed /\ OneStatePerCustomer(main_df)) => StateCountsWithinCustomers

\* One customer with a state and one without: the sum is below the number
\* of customers.
C6_Witness ==
  /\ SameOnEveryBuild
  /\ Computed
  /\ OneStatePerCustomer(main_df)
  /\ Cardinality(Distinct(main_df, "customer_id")) = 2
  /\ ColumnSum(bystate_customer_df, "customer_count") = 1
  /\ \E i \in 1..Len(main_df) : main_df[i].customer_state = NaN

-----------------------------------------------------------------------------
(* C7 *)

\* C7: a row whose date is missing or cannot be parsed is loaded with NaT;
\* it is in no filtered view, the default range included, and every output
\* is what the run computes from the table without such rows.
C7_MissingDatesExcluded ==
  /\ Len(all_df) = Len(csv)
  /\ Computed =>
       /\ \A i \in 1..Len(main_df) : main_df[i].order_estimated_delivery_date # NaT
       /\ main_df = Filter(DropMissingDates(all_df), start_date, end_date)
       /\ daily_orders_df = create_daily_orders_df(DropMissingDates(main_df))
       /\ rfm_df = create_rfm_df(DropMissingDates(main_df))
       /\ review_score_df = create_review_score_df(DropMissingDates(main_df))
       /\ byproduct_df = create_byproduct_df(DropMissingDates(main_df))
       /\ bystate_customer_df \in create_bystate_customer_df(DropMissingDates(main_df))
       /\ bycity_customer_df \in create_bycity_customer_df(DropMissingDates(main_df))
       /\ pc = "rendered" => avg_review_df = AvgReview(DropMissingDates(main_df))

\* The default range on a table that has an empty date cell, an unparseable
\* one and a dated row.
C7_Witness ==
  /\ SameOnEveryBuild
  /\ Ranged
  /\ start_date = DateOf(min_date)
  /\ end_date = DateOf(max_date)
  /\ \E i \in 1..Len(csv) : csv[i].order_estimated_delivery_date = <<>>
  /\ \E i \in 1..Len(csv) : Len(csv[i].order_estimated_delivery_date) = 2
                            /\ all_df[i].order_estimated_delivery_date = NaT
  /\ Len(main_df) = 1

-----------------------------------------------------------------------------
(* C8 *)

\* C8 (as stated): for a range that selects no row the run does not fail:
\* it completes with an empty filtered view and six empty summary tables.
\* Stated for tables stamped at midnight and ranges with start <= end.
C8_RunCompletesWithEmptyTables ==
  (/\ Ranged
   /\ AllMidnight(all_df)
   /\ start_date <= end_date
   /\ main_df = <<>>) =>
    /\ pc = "rendered"
    /\ daily_orders_df = <<>>
    /\ bystate_customer_df = <<>>
    /\ bycity_customer_df = <<>>
    /\ review_score_df = <<>>
    /\ byproduct_df = <<>>
    /\ rfm_df = <<>>

-----------------------------------------------------------------------------
(* C9 *)

\* C9 (as stated): after any sequence of range changes every derived table
\* and the average review score are the aggregators' results on the rows of
\* the loaded table that lie in the currently selected range.
C9_OutputsFromRowsOfSelectedRange ==
  Ranged =>
    LET selected == RowsOnDaysWithin(all_df, start_date, end_date)
    IN /\ daily_orders_df = create_daily_orders_df(selected)
       /\ bystate_customer_df \in create_bystate_customer_df(selected)
       /\ bycity_customer_df \in create_bycity_customer_df(selected)
       /\ byproduct_df = create_byproduct_df(selected)
       /\ review_score_df = create_review_score_df(selected)
       /\ rfm_df = create_rfm_df(selected)
       /\ pc = "rendered" => avg_review_df = AvgReview(selected)

-----------------------------------------------------------------------------
(* C10 *)

\* The state table counts distinct customer_id per state, the city table
\* distinct order_id per city, one row for every state and city present.
CountsPerStateAndCity ==
  /\ Len(bystate_customer_df) = Cardinality(Distinct(main_df, "customer_state") \ {NaN})
  /\ {bystate_customer_df[g].customer_state : g \in 1..Len(bystate_customer_df)}
       = Distinct(main_df, "customer_state") \ {NaN}
  /\ \A g \in 1..Len(bystate_customer_df) :
       bystate_customer_df[g].customer_count =
         Cardinality({main_df[i].customer_id :
                        i \in {j \in 1..Len(main_df) :
                                 main_df[j].customer_state =
                                   bystate_customer_df[g].customer_state}})
  /\ Len(bycity_customer_df) = Cardinality(Distinct(main_df, "customer_city") \ {NaN})
  /\ {bycity_customer_df[g].customer_city : g \in 1..Len(bycity_customer_df)}
       = Distinct(main_df, "customer_city") \ {NaN}
  /\ \A g \in 1..Len(bycity_customer_df) :
       bycity_customer_df[g].customer_count =
         Cardinality({main_df[i].order_id :
                        i \in {j \in 1..Len(main_df) :
                                 main_df[j].customer_city =
                                   bycity_customer_df[g].customer_city}})

\* The rows of t are in non-increasing order of customer_count.
NonIncreasing(t) ==
  \A g \in 1..Len(t) : \A h \in 1..Len(t) :
    g < h => t[g].customer_count >= t[h].customer_count

\* Rows of t with equal customer_count are in the order of their keys.
TiesInKeyOrder(t, keycol) ==
  \A g \in 1..Len(t) : \A h \in 1..Len(t) :
    (g < h /\ t[g].customer_count = t[h].customer_count) =>
      Rank(t[g][keycol]) < Rank(t[h][keycol])

\* C10 (as stated): the counts are per state distinct customers and per city
\* distinct orders, the rows are in non-increasing order of customer_count,
\* and rows with equal counts keep their group order.
C10_SortedWithTiesInGroupOrder ==
  Computed =>
    /\ CountsPerStateAndCity
    /\ NonIncreasing(bystate_customer_df)
    /\ NonIncreasing(bycity_customer_df)
    /\ TiesInKeyOrder(bystate_customer_df, "customer_state")
    /\ TiesInKeyOrder(bycity_customer_df, "customer_city")

\* C10 (amended): the counts are per state distinct customers and per city
\* distinct orders, and the rows are in non-increasing order of
\* customer_count; the order of rows with equal counts is not fixed.
C10_SortedByCount ==
  Computed =>
    /\ CountsPerStateAndCity
    /\ NonIncreasing(bystate_customer_df)
    /\ NonIncreasing(bycity_customer_df)

\* A state with two customers ranked above the state that comes first by
\* name, and a city with two orders ranked above a city with one: three
\* orders counted for the cities, two customers in all.
C10_Witness ==
  /\ SameOnEveryBuild
  /\ Computed
  /\ Len(bystate_customer_df) = 2
  /\ bystate_customer_df[1].customer_state = "SP"
  /\ bystate_customer_df[1].customer_count = 2
  /\ bystate_customer_df[2].customer_count = 1
  /\ Len(bycity_customer_df) = 2
  /\ bycity_customer_df[1].customer_count = 2
  /\ bycity_customer_df[2].customer_count = 1
  /\ Cardinality(Distinct(main_df, "customer_id")) = 2

====
